---- MODULE Spec2Model ----
(***************************************************************************)
(* Model of the asynchronous file logger of package logger                 *)
(* (src/logger/logger.go): producers call Push, which hands records over   *)
(* a bounded channel to the goroutine launched by Init; the goroutine      *)
(* (start / write) appends the formatted lines to one file per severity    *)
(* directory and rotates that file by date and by size                     *)
(* (newFile / renameFile).                                                 *)
(*                                                                         *)
(* Abstractions.  A time.Time is its calendar day in the configured zone   *)
(* (a number of Days); a file name is the tuple of its parts,              *)
(* <<d, ".log">> for "<d>.log" and <<d, "_", n, ".log">> for               *)
(* "<d>_<n>.log"; strings that the code takes apart or measures (Level,    *)
(* Line, Message) are sequences of tokens; a file is the sequence of the   *)
(* lines appended to it and its size is the sum of their byte lengths.     *)
(* Every line carries, in the field src, the identity of the *Log it was   *)
(* formatted from (history information, not bytes).                        *)
(***************************************************************************)
EXTENDS Integers, Sequences, FiniteSets, TLC

\* ---------------------------------------------------------------- bounds
MaxPush == 3
MaxDay == 2
MaxInits == 2
SmallMaxSize == 40
SmallChannelSize == 1
MaxPush000 == 2

\* ------------------------------------------------- constants of logger.go
DefaultMaxSize == 1073741824
DefaultChannelSize == 1024
TimeLen == 19

debugLevel == <<"DBG">>
infoLevel == <<"INF">>
warnLevel == <<"WRN">>
errorLevel == <<"ERR">>

\* ------------------------------------------------------ sets of the model
Producers == {"p1", "p2"}
Days == 1..MaxDay
LevelDirs == {"dbg", "inf", "wrn", "err"}
PushLevels == {infoLevel, errorLevel}
Messages == {<<"a", "\n", "b">>}
Origin == <<"f", ":", "1">>
Configs ==
    { [LogFileMaxSize |-> 0, ChannelSize |-> 0, UseColor |-> FALSE],
      [LogFileMaxSize |-> SmallMaxSize, ChannelSize |-> SmallChannelSize,
       UseColor |-> FALSE] }

NoOne == "nobody"
NoLog == [id |-> <<NoOne, 0>>]
NilFile == [nil |-> TRUE]
EmptyDir == [n \in {} |-> <<>>]

VARIABLES
    started,         \* var started
    logFileMaxSize,  \* var logFileMaxSize
    useColor,        \* var useColor
    chanCap,         \* cap(logChan)
    logChan,         \* the records buffered in logChan, oldest first
    fileMap,         \* var fileMap: level -> *os.File (NilFile after a failed open)
    mux,             \* the producer holding mux, or NoOne
    pending,         \* the record the holder of mux is sending (Push, line 85)
    seq,             \* per producer, the number of its Push calls that passed line 82
    wk,              \* the goroutines launched by Init: how many have not yet
                     \* run (go), how many wait in select, and the records of
                     \* those inside write
    dirs,            \* the severity directories that exist
    files,           \* per severity directory, file name -> contents
    now,             \* the calendar day of time.Now() in the configured zone
    panicked,        \* "" or the message of the panic that ended the process
    initCalls,       \* history: calls of Init
    initReturned,    \* history: calls of Init that returned
    rotations,       \* history: per directory and day, the writes that found
                     \* the cached file of that day too big on that same day
    pushed,          \* history: the records Push accepted, by identity
    openFailed,      \* history: os.OpenFile has failed at least once
    record,          \* the Log a caller hands to formatLine by pointer
    formatted,       \* the strings formatLine has returned for record
    infoFile,        \* var infoFile of the variant part_000
    program          \* which of the two sources runs: "logger.go" or "part_000"

config == <<logFileMaxSize, useColor, chanCap>>
producers == <<mux, pending, seq, pushed>>
disk == <<dirs, files, rotations, openFailed>>
inits == <<initCalls, initReturned>>
extra == <<record, formatted, infoFile, program>>

vars == <<started, config, logChan, fileMap, producers, wk, disk, now,
          panicked, inits, extra>>

\* ------------------------------------------------------------- formatting
\* strings.Split(s, sep) on a sequence of one-character tokens
RECURSIVE Split(_, _)
Split(s, sep) ==
    IF \A i \in 1..Len(s) : s[i] # sep
    THEN <<s>>
    ELSE LET i == CHOOSE k \in 1..Len(s) :
                      s[k] = sep /\ \A j \in 1..(k - 1) : s[j] # sep
         IN  <<SubSeq(s, 1, i - 1)>> \o Split(SubSeq(s, i + 1, Len(s)), sep)

\* setLevelColor: "\033[<color>m" + level + "\033[0m"
setLevelColor(level) ==
    LET color == IF level = infoLevel THEN "ESC[32m"
                 ELSE IF level = debugLevel THEN "ESC[34m"
                 ELSE IF level = warnLevel THEN "ESC[33m"
                 ELSE IF level = errorLevel THEN "ESC[31m"
                 ELSE "ESC[36m"
    IN  <<color>> \o level \o <<"ESC[0m">>

\* the loop of formatLine: log.Level is reassigned inside the loop
RECURSIVE formatLoop(_, _, _, _, _)
formatLoop(log, msgList, i, level, color) ==
    IF i > Len(msgList)
    THEN [result |-> <<>>, Level |-> level]
    ELSE LET lv == IF color THEN setLevelColor(level) ELSE level
             rest == formatLoop(log, msgList, i + 1, lv, color)
         IN  [result |-> <<[Time |-> log.Time, Level |-> lv, Line |-> log.Line,
                            Msg |-> msgList[i], src |-> log.id]>> \o rest.result,
              Level |-> rest.Level]

formatLine(log) ==
    formatLoop(log, Split(log.Message, "\n"), 1, log.Level, useColor)

\* byte lengths of what "%s [%s] [%s] %s" + "\n" prints
TokenBytes(t) ==
    IF t = "ESC[0m" THEN 4
    ELSE IF t \in {"ESC[31m", "ESC[32m", "ESC[33m", "ESC[34m", "ESC[36m"} THEN 5
    ELSE 3

RECURSIVE LevelBytes(_)
LevelBytes(level) ==
    IF level = <<>> THEN 0 ELSE TokenBytes(Head(level)) + LevelBytes(Tail(level))

LineBytes(l) ==
    TimeLen + 2 + LevelBytes(l.Level) + 3 + Len(l.Line) + 2 + Len(l.Msg) + 1

RECURSIVE Size(_)
Size(content) ==
    IF content = <<>> THEN 0 ELSE LineBytes(Head(content)) + Size(Tail(content))

\* ------------------------------------------------------------ file system
baseName(date) == <<date, ".log">>
backupName(date, n) == <<date, "_", n, ".log">>

\* strings.ToLower(level) for the four level constants
ToLower(level) ==
    IF level = debugLevel THEN "dbg"
    ELSE IF level = warnLevel THEN "wrn"
    ELSE IF level = errorLevel THEN "err"
    ELSE "inf"

\* getSuffix: the number between the first "_" and the next ".", else 0
getSuffix(fileName) ==
    IF Len(fileName) > 2 /\ fileName[2] = "_" THEN fileName[3] ELSE 0

\* a getFileSize that finds no file
getFileSizeZero(dir, name) == 0

\* getFileSize: 0 when the path does not exist
getFileSize(dir, name) ==
    IF name \in DOMAIN dir THEN Size(dir[name]) ELSE 0

\* os.Rename inside one directory: replaces an existing target; the error
\* of a missing source is ignored by renameFile
Rename(dir, old, new) ==
    IF old \notin DOMAIN dir \/ old = new
    THEN dir
    ELSE [n \in (DOMAIN dir \ {old}) \cup {new} |->
              IF n = new THEN dir[old] ELSE dir[n]]

\* ioutil.ReadDir lists by file name: "<d>.log" before "<d>_1.log" ...
\* (suffixes stay below 10 in this model, so name order is suffix order)
RECURSIVE ReadDir(_)
ReadDir(names) ==
    IF names = {} THEN <<>>
    ELSE LET first == CHOOSE n \in names :
                          \A m \in names :
                              \/ n[1] < m[1]
                              \/ n[1] = m[1] /\ getSuffix(n) <= getSuffix(m)
         IN  <<first>> \o ReadDir(names \ {first})

swap(s, i, j) == [s EXCEPT ![i] = s[j], ![j] = s[i]]

\* a renameFile that sorts by ascending suffix
RECURSIVE sortInnerAscending(_, _, _)
sortInnerAscending(s, i, j) ==
    IF j > Len(s) THEN s
    ELSE sortInnerAscending(IF getSuffix(s[i]) > getSuffix(s[j])
                            THEN swap(s, i, j) ELSE s,
                            i, j + 1)

\* the two nested loops of renameFile (lines 168-174), indices shifted by one
RECURSIVE sortInner(_, _, _)
sortInner(s, i, j) ==
    IF j > Len(s) THEN s
    ELSE sortInner(IF getSuffix(s[i]) < getSuffix(s[j]) THEN swap(s, i, j) ELSE s,
                   i, j + 1)

\* a renameFile that renames in the order ioutil.ReadDir lists the files
sortOuterNone(s, i) == s

RECURSIVE sortOuter(_, _)
sortOuter(s, i) ==
    IF i >= Len(s) THEN s ELSE sortOuter(sortInner(s, i, i + 1), i + 1)

\* a renameFile that numbers from 0: "%s_%d.log" with len(dateFile)-i-1
renameTargetOffByOne(date, k, i) == backupName(date, k - i)

\* the new name of the i-th file (i from 1) of the sorted list of k files
renameTarget(date, k, i) == backupName(date, k - (i - 1))

RECURSIVE renameLoop(_, _, _, _)
renameLoop(dir, dateFile, date, i) ==
    IF i > Len(dateFile) THEN dir
    ELSE renameLoop(Rename(dir, dateFile[i],
                           renameTarget(date, Len(dateFile), i)),
                    dateFile, date, i + 1)

renameFile(dir, date) ==
    LET listed == ReadDir(DOMAIN dir)
        dateFile == SelectSeq(listed, LAMBDA n : n[1] = date)
    IN  renameLoop(dir, sortOuter(dateFile, 1), date, 1)

\* newFile(level): the directories, the directory's files and the handle
\* after the call; openOK is whether os.OpenFile succeeds
newFile(level, openOK) ==
    LET date == now
        fileDir == ToLower(level)
        fileName == baseName(date)
        ok == fileDir \in dirs
        dir == IF ok /\ getFileSize(files[fileDir], fileName) > logFileMaxSize
               THEN renameFile(files[fileDir], date)
               ELSE files[fileDir]
    IN  [dirs |-> dirs \cup {fileDir},
         dir |-> IF openOK /\ fileName \notin DOMAIN dir
                 THEN [n \in DOMAIN dir \cup {fileName} |->
                           IF n = fileName THEN <<>> ELSE dir[n]]
                 ELSE dir,
         file |-> IF openOK THEN [name |-> fileName] ELSE NilFile]

\* ------------------------------------------------------------------ state
Init ==
    /\ started = FALSE
    /\ logFileMaxSize = DefaultMaxSize
    /\ useColor = FALSE
    /\ chanCap = DefaultChannelSize
    /\ logChan = <<>>
    /\ fileMap = [l \in {} |-> NilFile]
    /\ mux = NoOne
    /\ pending = NoLog
    /\ seq = [p \in Producers |-> 0]
    /\ wk = [go |-> 0, select |-> 0, write |-> {}]
    /\ dirs = {}
    /\ files = [d \in LevelDirs |-> EmptyDir]
    /\ now = 1
    /\ panicked = ""
    /\ initCalls = 0
    /\ initReturned = 0
    /\ rotations = [d \in LevelDirs |-> [t \in Days |-> 0]]
    /\ pushed = [i \in {} |-> NoLog]
    /\ openFailed = FALSE
    /\ record = NoLog
    /\ formatted = <<>>
    /\ infoFile = NilFile
    /\ program = "logger.go"

\* a panic that nothing recovers ends the process
Running == panicked = ""

\* ------------------------------------------------------------------- Init
\* line 48
InitPanics == started

\* lines 62-66
channelSize(configured) ==
    IF configured.ChannelSize = 0 THEN DefaultChannelSize
    ELSE configured.ChannelSize

\* func Init(config Config)
LoggerInit(configured) ==
    /\ Running
    /\ initCalls < MaxInits
    /\ initCalls' = initCalls + 1
    /\ IF InitPanics
       THEN /\ panicked' = "logger started"
            /\ UNCHANGED <<started, config, logChan, fileMap, producers, wk,
                           disk, now, extra, initReturned>>
       ELSE /\ logFileMaxSize' = IF configured.LogFileMaxSize # 0
                                 THEN configured.LogFileMaxSize
                                 ELSE logFileMaxSize
            /\ useColor' = configured.UseColor
            /\ chanCap' = channelSize(configured)
            /\ logChan' = <<>>
            /\ fileMap' = [l \in {} |-> NilFile]
            /\ wk' = [wk EXCEPT !.go = @ + 1]
            /\ initReturned' = initReturned + 1
            /\ UNCHANGED <<started, producers, disk, now, extra, panicked>>

\* ------------------------------------------------------------------- Push
\* a Push without the test of started
PushNeverPanics == FALSE

\* line 82
PushPanics == ~started

\* a channel that takes one record more than its capacity
CanSendOneMore == Len(logChan) <= chanCap

\* a send on logChan can proceed when its buffer has room
CanSend == Len(logChan) < chanCap

Pushes == seq["p1"] + seq["p2"]

\* the configuration of the size-rotation scenario: max_file_size_bytes = 100
ScenarioConfig ==
    [LogFileMaxSize |-> 100, ChannelSize |-> 0, UseColor |-> FALSE]

\* the calls of Push a behaviour makes: five under the scenario's
\* configuration, MaxPush otherwise
PushBudget ==
    IF logFileMaxSize = ScenarioConfig.LogFileMaxSize THEN 5 ELSE MaxPush

\* Push, lines 80-85: with mux held, test started and send; the send blocks
\* (mux still held) while logChan is full
Push(p, log) ==
    /\ Running
    /\ mux = NoOne
    /\ Pushes < PushBudget
    /\ IF PushPanics
       THEN /\ panicked' = "logger not start"
            /\ UNCHANGED <<started, config, logChan, fileMap, producers, wk,
                           disk, now, extra, inits>>
       ELSE LET sent == [log EXCEPT !.id = <<p, seq[p] + 1>>]
            IN  /\ seq' = [seq EXCEPT ![p] = @ + 1]
                /\ pushed' = [i \in DOMAIN pushed \cup {sent.id} |->
                                  IF i = sent.id THEN sent ELSE pushed[i]]
                /\ IF CanSend
                   THEN /\ logChan' = Append(logChan, sent)
                        /\ UNCHANGED <<mux, pending>>
                   ELSE /\ mux' = p
                        /\ pending' = sent
                        /\ UNCHANGED logChan
                /\ UNCHANGED <<started, config, fileMap, wk, disk, now, extra,
                               panicked, inits>>

\* Push, line 85 and the deferred Unlock, for a send that was blocked
PushUnblock(p) ==
    /\ Running
    /\ mux = p
    /\ CanSend
    /\ logChan' = Append(logChan, pending)
    /\ mux' = NoOne
    /\ pending' = NoLog
    /\ UNCHANGED <<started, config, fileMap, seq, pushed, wk, disk, now, extra,
                   panicked, inits>>

\* ------------------------------------------------------------------ start
\* the goroutine of "go start()" runs line 182
WorkerStart ==
    /\ Running
    /\ wk.go > 0
    /\ started' = TRUE
    /\ wk' = [wk EXCEPT !.go = @ - 1, !.select = @ + 1]
    /\ UNCHANGED <<config, logChan, fileMap, producers, disk, now, extra, panicked,
                   inits>>

\* case log := <-logChan
WorkerReceive ==
    /\ Running
    /\ wk.select > 0
    /\ logChan # <<>>
    /\ wk' = [wk EXCEPT !.select = @ - 1, !.write = @ \cup {Head(logChan)}]
    /\ logChan' = Tail(logChan)
    /\ UNCHANGED <<started, config, fileMap, producers, disk, now, extra, panicked,
                   inits>>

\* ------------------------------------------------------------------ write
\* a switch of write without the case warnLevel
BucketNoWarn(logLevel) ==
    IF logLevel \in {debugLevel, errorLevel} THEN logLevel ELSE infoLevel

\* the switch of write, lines 198-203
Bucket(logLevel) ==
    IF logLevel \in {debugLevel, warnLevel, errorLevel} THEN logLevel
    ELSE infoLevel

\* a write that keeps the cached handle whatever its size and date
needNewFileNever(file, dir, log) == FALSE

\* a write that rotates by date only
needNewFileDateOnly(file, dir, log) == log.Time # file.name[1]

\* lines 206-211, for a cached handle that is not nil: stat.Size() is past
\* logFileMaxSize, or the record's date does not begin with the date in the
\* name the file was opened under
needNewFile(file, dir, log) ==
    \/ Size(dir[file.name]) > logFileMaxSize
    \/ log.Time # file.name[1]

\* a file opened without O_APPEND: the write replaces the contents
WriteStringTruncating(dir, file, lines) ==
    IF file = NilFile THEN dir
    ELSE [dir EXCEPT ![file.name] = lines]

\* file.WriteString(s): a nil *os.File returns an error, which write drops
WriteString(dir, file, lines) ==
    IF file = NilFile THEN dir
    ELSE [dir EXCEPT ![file.name] = @ \o lines]

\* write(log), called by the goroutine that received log
WorkerWrite(log, openOK) ==
    /\ Running
    /\ log \in wk.write
    /\ LET level == Bucket(log.Level)
           fileDir == ToLower(level)
           cached == level \in DOMAIN fileMap
       IN  IF cached /\ fileMap[level] = NilFile
           THEN \* file.Stat() returns a nil FileInfo and stat.Name() panics;
                \* the deferred function of start runs and the process ends
                /\ panicked' = "nil pointer dereference"
                /\ started' = FALSE
                /\ UNCHANGED <<config, logChan, fileMap, producers, wk, disk,
                               now, extra, inits>>
           ELSE LET need == IF cached
                            THEN needNewFile(fileMap[level], files[fileDir], log)
                            ELSE TRUE
                    nf == IF need THEN newFile(level, openOK)
                          ELSE [dirs |-> dirs, dir |-> files[fileDir],
                                file |-> fileMap[level]]
                    out == formatLine(log)
                IN  /\ fileMap' = [l \in DOMAIN fileMap \cup {level} |->
                                       IF l = level THEN nf.file ELSE fileMap[l]]
                    /\ dirs' = nf.dirs
                    /\ files' = [files EXCEPT ![fileDir] =
                                     WriteString(nf.dir, nf.file, out.result)]
                    /\ rotations' =
                           IF /\ cached
                              /\ Size(files[fileDir][fileMap[level].name])
                                     > logFileMaxSize
                              /\ fileMap[level].name[1] = now
                           THEN [rotations EXCEPT ![fileDir][now] = @ + 1]
                           ELSE rotations
                    /\ openFailed' = (openFailed \/ nf.file = NilFile)
                    /\ wk' = [wk EXCEPT !.select = @ + 1, !.write = @ \ {log}]
                    /\ UNCHANGED <<started, config, logChan, producers, now, extra,
                                   panicked, inits>>

\* ------------------------------------------------------------------ clock
\* time.Now() reaches the next calendar day
Tick ==
    /\ Running
    /\ now < MaxDay
    /\ now' = now + 1
    /\ UNCHANGED <<started, config, logChan, fileMap, producers, wk, disk,
                   panicked, inits, extra>>

\* a Log as a caller of Push builds it
NewLog(level, day, message) ==
    [id |-> <<NoOne, 0>>, Level |-> level, Time |-> day, Line |-> Origin,
     Message |-> message]

Next ==
    \/ \E configured \in Configs : LoggerInit(configured)
    \/ \E p \in Producers, level \in PushLevels, day \in Days,
          message \in Messages : Push(p, NewLog(level, day, message))
    \/ \E p \in Producers : PushUnblock(p)
    \/ WorkerStart
    \/ WorkerReceive
    \/ \E log \in wk.write, openOK \in BOOLEAN : WorkerWrite(log, openOK)
    \/ Tick

Spec == Init /\ [][Next]_vars

\* the steps of WorkerWrite, told from the other steps of Next by what
\* they do to wk and panicked: a goroutine inside write returns to select,
\* or its panic ends the process
WriteReturns ==
    \E log \in wk.write :
        /\ Running
        /\ \/ wk' = [wk EXCEPT !.select = @ + 1, !.write = @ \ {log}]
           \/ panicked' = "nil pointer dereference"

\* where WorkerWrite is enabled
InsideWrite == Running /\ wk.write # {}

\* the Go scheduler runs every runnable goroutine: the worker's steps and a
\* blocked send that can proceed are taken eventually.  The last conjunct
\* is weak fairness of WorkerWrite, written out with InsideWrite for
\* ENABLED and WriteReturns for the step.
FairSpec ==
    /\ Spec
    /\ WF_vars(WorkerStart)
    /\ WF_vars(WorkerReceive)
    /\ WF_vars(\E p \in Producers : PushUnblock(p))
    /\ ([]<>(~InsideWrite) \/ []<><<WriteReturns>>_vars)

\* ------------------------------------------- the variant src/unnamed/part_000
DebugLevel == <<"dbg">>
InfoLevel == <<"inf">>
WarnLevel == <<"wrn">>
ErrorLevel == <<"err">>

\* var date string (line 36): declared, assigned nowhere in the file
date == ""

Levels000 == {DebugLevel, InfoLevel, WarnLevel, ErrorLevel, <<"xyz">>}
Producers000 == {"p1"}
Configs000 ==
    { [LogFileMaxSize |-> 0, ChannelSize |-> 0],
      [LogFileMaxSize |-> SmallMaxSize, ChannelSize |-> 0] }

\* strings.ToUpper on the tokens of a level
ToUpper(level) ==
    [i \in DOMAIN level |->
        IF level[i] = "dbg" THEN "DBG"
        ELSE IF level[i] = "inf" THEN "INF"
        ELSE IF level[i] = "wrn" THEN "WRN"
        ELSE IF level[i] = "err" THEN "ERR"
        ELSE IF level[i] = "xyz" THEN "XYZ"
        ELSE level[i]]

\* formatLine of part_000: the level is printed in upper case, info is not
\* written to
formatLine000(log) ==
    LET msgList == Split(log.Message, "\n")
    IN  [i \in 1..Len(msgList) |->
            [Time |-> log.Time, Level |-> ToUpper(log.Level), Line |-> log.Line,
             Msg |-> msgList[i], src |-> log.id]]

\* strings.Index(s, prefix) != 0, for a day s and a prefix that is a day or ""
IndexNotZero(s, prefix) == IF prefix = "" THEN FALSE ELSE s # prefix

\* newFile(level) of part_000 on the directories ds and their files fs: the
\* directory is named by level itself; renameFile takes time.Now() again
newFile000(level, ds, fs, openOK) ==
    LET day == now
        fileDir == level[1]
        fileName == baseName(day)
        ok == fileDir \in ds
        dir == IF ok /\ getFileSize(fs[fileDir], fileName) > logFileMaxSize
               THEN renameFile(fs[fileDir], now)
               ELSE fs[fileDir]
    IN  [dirs |-> ds \cup {fileDir},
         files |-> [fs EXCEPT ![fileDir] =
                       IF openOK /\ fileName \notin DOMAIN dir
                       THEN [n \in DOMAIN dir \cup {fileName} |->
                                 IF n = fileName THEN <<>> ELSE dir[n]]
                       ELSE dir],
         file |-> IF openOK THEN [name |-> fileName] ELSE NilFile]

Init000 ==
    /\ started = FALSE
    /\ logFileMaxSize = DefaultMaxSize
    /\ useColor = FALSE
    /\ chanCap = 0
    /\ logChan = <<>>
    /\ fileMap = [l \in {} |-> NilFile]
    /\ mux = NoOne
    /\ pending = NoLog
    /\ seq = [p \in Producers |-> 0]
    /\ wk = [go |-> 0, select |-> 0, write |-> {}, stuck |-> 0]
    /\ dirs = {}
    /\ files = [d \in LevelDirs |-> EmptyDir]
    /\ now = 1
    /\ panicked = ""
    /\ initCalls = 0
    /\ initReturned = 0
    /\ rotations = [d \in LevelDirs |-> [t \in Days |-> 0]]
    /\ pushed = [i \in {} |-> NoLog]
    /\ openFailed = FALSE
    /\ record = NoLog
    /\ formatted = <<>>
    /\ infoFile = NilFile
    /\ program = "part_000"

\* func Init(config Config) of part_000: no test of started; the goroutines
\* that wait on the channel being replaced wait on it for ever
LoggerInit000(configured) ==
    /\ Running
    /\ initCalls < MaxInits
    /\ initCalls' = initCalls + 1
    /\ initReturned' = initReturned + 1
    /\ logFileMaxSize' = IF configured.LogFileMaxSize # 0
                         THEN configured.LogFileMaxSize
                         ELSE logFileMaxSize
    /\ chanCap' = channelSize(configured)
    /\ logChan' = <<>>
    /\ wk' = [wk EXCEPT !.go = @ + 1, !.stuck = @ + wk.select, !.select = 0]
    /\ UNCHANGED <<started, useColor, fileMap, producers, disk, now, panicked,
                   extra>>

\* func Push(data LogInfo) of part_000: no mutex; the send waits for room
Push000(p, log) ==
    /\ Running
    /\ Pushes < MaxPush000
    /\ IF ~started
       THEN /\ panicked' = "logger not start"
            /\ UNCHANGED <<started, config, logChan, fileMap, producers, wk,
                           disk, now, inits, extra>>
       ELSE LET sent == [log EXCEPT !.id = <<p, seq[p] + 1>>]
            IN  /\ CanSend
                /\ seq' = [seq EXCEPT ![p] = @ + 1]
                /\ pushed' = [i \in DOMAIN pushed \cup {sent.id} |->
                                  IF i = sent.id THEN sent ELSE pushed[i]]
                /\ logChan' = Append(logChan, sent)
                /\ UNCHANGED <<started, config, fileMap, mux, pending, wk, disk,
                               now, panicked, inits, extra>>

\* writeLog, lines 180-181: the goroutine of "go writeLog()" starts
Start000 == WorkerStart

\* writeLog, line 184: case info := <-infoChan
Receive000 == WorkerReceive

\* newInfoFile, lines 128-133, on the directories ds and their files fs
newInfoFile(ds, fs, openOK) == newFile000(InfoLevel, ds, fs, openOK)

\* the body of the case in writeLog, lines 185-199, for the record log;
\* openOK1 and openOK2 are the results of the first and second os.OpenFile
writeLog(log, openOK1, openOK2) ==
    /\ Running
    /\ log \in wk.write
    /\ IF log.Level \in {DebugLevel, WarnLevel, ErrorLevel}
       THEN LET nf == newFile000(log.Level, dirs, files, openOK1)
                fileDir == log.Level[1]
            IN  /\ dirs' = nf.dirs
                /\ files' = [nf.files EXCEPT ![fileDir] =
                                 WriteString(@, nf.file, formatLine000(log))]
                /\ openFailed' = (openFailed \/ nf.file = NilFile)
                /\ wk' = [wk EXCEPT !.select = @ + 1, !.write = @ \ {log}]
                /\ UNCHANGED <<started, config, logChan, fileMap, producers,
                               rotations, now, panicked, inits, extra>>
       ELSE LET first == IF infoFile = NilFile
                         THEN newInfoFile(dirs, files, openOK1)
                         ELSE [dirs |-> dirs, files |-> files, file |-> infoFile]
            IN  IF first.file = NilFile
                THEN \* infoFile.Stat() returns a nil FileInfo: stat.Size()
                     \* panics and the deferred function of writeLog runs
                     /\ panicked' = "nil pointer dereference"
                     /\ started' = FALSE
                     /\ dirs' = first.dirs
                     /\ files' = first.files
                     /\ openFailed' = TRUE
                     /\ UNCHANGED <<config, logChan, fileMap, producers, wk,
                                    rotations, now, inits, extra>>
                ELSE LET again ==
                             \/ Size(first.files["inf"][first.file.name])
                                    > logFileMaxSize
                             \/ IndexNotZero(log.Time, date)
                         second == IF again
                                   THEN newInfoFile(first.dirs, first.files,
                                                    IF infoFile = NilFile
                                                    THEN openOK2 ELSE openOK1)
                                   ELSE first
                     IN  /\ infoFile' = second.file
                         /\ dirs' = second.dirs
                         /\ files' = [second.files EXCEPT !["inf"] =
                                          WriteString(@, second.file,
                                                      formatLine000(log))]
                         /\ openFailed' = (openFailed \/ second.file = NilFile)
                         /\ wk' = [wk EXCEPT !.select = @ + 1,
                                             !.write = @ \ {log}]
                         /\ UNCHANGED <<started, config, logChan, fileMap,
                                        producers, rotations, now, panicked,
                                        inits, record, formatted, program>>

Next000 ==
    \/ \E configured \in Configs000 : LoggerInit000(configured)
    \/ \E p \in Producers000, level \in Levels000, day \in Days,
          message \in Messages : Push000(p, NewLog(level, day, message))
    \/ Start000
    \/ Receive000
    \/ \E log \in wk.write, openOK1 \in BOOLEAN, openOK2 \in BOOLEAN :
           writeLog(log, openOK1, openOK2)
    \/ Tick

Spec000 == Init000 /\ [][Next000]_vars

\* --------------------------------------- both sources, every Level string
\* the Level strings handed to Push of logger.go: its four codes, and two
\* strings that are none of them
Levels == {debugLevel, infoLevel, warnLevel, errorLevel, <<"XYZ">>, <<"dbg">>}

RoutingInit == Init \/ Init000

RoutingNext ==
    \/ /\ program = "logger.go"
       /\ \E configured \in Configs : LoggerInit(configured)
    \/ /\ program = "logger.go"
       /\ Pushes < MaxPush000
       /\ \E p \in Producers000, level \in Levels, day \in Days,
             message \in Messages : Push(p, NewLog(level, day, message))
    \/ /\ program = "logger.go"
       /\ \E p \in Producers000 : PushUnblock(p)
    \/ /\ program = "logger.go"
       /\ \E log \in wk.write, openOK \in BOOLEAN : WorkerWrite(log, openOK)
    \/ /\ program = "part_000"
       /\ \E configured \in Configs000 : LoggerInit000(configured)
    \/ /\ program = "part_000"
       /\ \E p \in Producers000, level \in Levels000, day \in Days,
             message \in Messages : Push000(p, NewLog(level, day, message))
    \/ /\ program = "part_000"
       /\ \E log \in wk.write, openOK1 \in BOOLEAN, openOK2 \in BOOLEAN :
              writeLog(log, openOK1, openOK2)
    \/ WorkerStart
    \/ WorkerReceive
    \/ Tick

RoutingSpec == RoutingInit /\ [][RoutingNext]_vars

\* ------------------------------------------- formatLine called on a Log
MaxCalls == 2

FormatMessages ==
    { <<>>, <<"a">>, <<"\n">>, <<"a", "\n", "b">>,
      <<"a", "\n", "b", "\n", "c">> }
FormatConfigs ==
    { [LogFileMaxSize |-> 0, ChannelSize |-> 0, UseColor |-> FALSE],
      [LogFileMaxSize |-> 0, ChannelSize |-> 0, UseColor |-> TRUE] }

\* a caller builds the Log it will hand to formatLine
BuildRecord(log) ==
    /\ record = NoLog
    /\ record' = [log EXCEPT !.id = <<"p1", 1>>]
    /\ UNCHANGED <<started, config, logChan, fileMap, producers, wk, disk, now,
                   panicked, inits, formatted, infoFile, program>>

\* formatLine(&record) of logger.go: the string it returns, and what it
\* leaves in record.Level
FormatCall ==
    /\ program = "logger.go"
    /\ record # NoLog
    /\ Len(formatted) < MaxCalls
    /\ formatted' = Append(formatted, formatLine(record).result)
    /\ record' = [record EXCEPT !.Level = formatLine(record).Level]
    /\ UNCHANGED <<started, config, logChan, fileMap, producers, wk, disk, now,
                   panicked, inits, infoFile, program>>

\* formatLine(&record) of part_000
FormatCall000 ==
    /\ program = "part_000"
    /\ record # NoLog
    /\ Len(formatted) < MaxCalls
    /\ formatted' = Append(formatted, formatLine000(record))
    /\ UNCHANGED <<started, config, logChan, fileMap, producers, wk, disk, now,
                   panicked, inits, record, infoFile, program>>

FormatNext ==
    \/ /\ program = "logger.go"
       /\ initCalls = 0
       /\ \E configured \in FormatConfigs : LoggerInit(configured)
    \/ /\ program = "logger.go"
       /\ \E level \in Levels, message \in FormatMessages :
              BuildRecord(NewLog(level, 1, message))
    \/ /\ program = "part_000"
       /\ \E level \in Levels000, message \in FormatMessages :
              BuildRecord(NewLog(level, 1, message))
    \/ FormatCall
    \/ FormatCall000

FormatSpec == RoutingInit /\ [][FormatNext]_vars

\* ------------------------------------------- the size-rotation scenario
\* an Info record that formats to 30 bytes: empty Line and empty Message
ScenarioLog == [NewLog(infoLevel, 1, <<>>) EXCEPT !.Line = <<>>]

\* the scenario leaves the channel size open
ScenarioConfigs ==
    {[ScenarioConfig EXCEPT !.ChannelSize = c] : c \in {0, 1, 2}}

\* Init once with max size 100, then five such records from one producer on
\* one date
ScenarioNext ==
    \/ initCalls = 0 /\ \E configured \in ScenarioConfigs : LoggerInit(configured)
    \/ Push("p1", ScenarioLog)
    \/ PushUnblock("p1")
    \/ WorkerStart
    \/ WorkerReceive
    \/ \E log \in wk.write, openOK \in BOOLEAN : WorkerWrite(log, openOK)

ScenarioSpec == Init /\ [][ScenarioNext]_vars

\* ------------------------------------------- renameFile on a directory
MaxBackups == 3

\* the one line of a file that was written as <d>.log (n = 0) or has since
\* become <d>_<n>.log
Mark(d, n) ==
    <<[Time |-> d, Level |-> infoLevel, Line |-> <<>>, Msg |-> <<>>,
       src |-> <<"p1", 10 * d + n>>]>>

\* a severity directory as earlier runs have left it: for day 1 the base
\* file and the backups 1..m, for day 2 any of its files
Directories ==
    { [n \in {baseName(1)} \cup {backupName(1, j) : j \in 1..m} \cup other |->
          IF n = baseName(1) THEN base ELSE Mark(n[1], getSuffix(n))] :
      m \in 0..MaxBackups,
      other \in SUBSET {baseName(2), backupName(2, 1), backupName(2, 2)},
      base \in {<<>>, Mark(1, 0)} }

\* the program starts on a log directory that already has files
Populate(dir) ==
    /\ initCalls = 0
    /\ dirs = {}
    /\ dirs' = {"inf"}
    /\ files' = [files EXCEPT !["inf"] = dir]
    /\ UNCHANGED <<started, config, logChan, fileMap, producers, wk, rotations,
                   openFailed, now, panicked, inits, extra>>

\* renameFile(fileDir, date) on the inf directory, for the day of time.Now()
ApplyRename ==
    /\ baseName(now) \in DOMAIN files["inf"]
    /\ files' = [files EXCEPT !["inf"] = renameFile(@, now)]
    /\ UNCHANGED <<started, config, logChan, fileMap, producers, wk, dirs,
                   rotations, openFailed, now, panicked, inits, extra>>

RenameNext ==
    \/ \E dir \in Directories : Populate(dir)
    \/ ApplyRename

RenameSpec == Init /\ [][RenameNext]_vars

\* ------------------------------------------------------- shared predicates
Ids == Producers \X (1..MaxPush)

\* nothing is queued, held by the worker or blocked in Push
Drained == logChan = <<>> /\ wk.write = {} /\ mux = NoOne

\* Push has returned for the record id
Returned(id) == id \in DOMAIN pushed /\ ~(mux = id[1] /\ pending.id = id)

Positions(content, id) == {i \in 1..Len(content) : content[i].src = id}

BackupIndices(dir, d) ==
    {n[3] : n \in {m \in DOMAIN files[dir] : m[1] = d /\ Len(m) > 2}}

\* the directory where write puts a record
DirOf(log) == ToLower(Bucket(log.Level))

\* the write of log, by the goroutine holding it, completes in this step
Wrote(log) == log \in wk.write /\ log \notin wk'.write

\* the write of log finds the cached file <d>.log of its bucket past
\* logFileMaxSize while time.Now() is still on day d
SizeRotation(log, d) ==
    /\ Wrote(log)
    /\ Bucket(log.Level) \in DOMAIN fileMap
    /\ fileMap[Bucket(log.Level)] = [name |-> baseName(d)]
    /\ Size(files[DirOf(log)][baseName(d)]) > logFileMaxSize
    /\ now = d

\* ------------------------------------------------------------------- C1
\* a directory's lines in the order they were written: its files by date,
\* and within a date the backups from the highest index down, then <d>.log
RECURSIVE ReadInOrder(_, _)
ReadInOrder(dir, names) ==
    IF names = {} THEN <<>>
    ELSE LET first == CHOOSE n \in names :
                          \A m \in names :
                              \/ n[1] < m[1]
                              \/ n[1] = m[1] /\ getSuffix(n) >= getSuffix(m)
         IN  dir[first] \o ReadInOrder(dir, names \ {first})

\* C1: two records that one producer pushed in program order and that go to
\* the same severity directory are on disk in that order: read in the order
\* of writing, a producer's records have ascending sequence numbers.
C1_PerProducerOrder ==
    \A dir \in LevelDirs :
        LET s == ReadInOrder(files[dir], DOMAIN files[dir])
        IN  \A i, j \in 1..Len(s) :
                (i < j /\ s[i].src[1] = s[j].src[1]) => s[i].src[2] <= s[j].src[2]

\* ------------------------------------------------------------------- C2
\* the lines of the record id are one block, equal to its formatted lines,
\* in one file of its severity directory, and nowhere else
ExactlyOnce(id) ==
    LET log == pushed[id]
        want == formatLine(log).result
    IN  /\ \E n \in DOMAIN files[DirOf(log)] :
               LET c == files[DirOf(log)][n]
               IN  /\ \E i \in 1..Len(c) :
                          /\ Positions(c, id) = i..(i + Len(want) - 1)
                          /\ SubSeq(c, i, i + Len(want) - 1) = want
                   /\ \A m \in DOMAIN files[DirOf(log)] \ {n} :
                          Positions(files[DirOf(log)][m], id) = {}
        /\ \A dir \in LevelDirs \ {DirOf(log)} :
               \A m \in DOMAIN files[dir] : Positions(files[dir][m], id) = {}

Written(id) ==
    \E dir \in LevelDirs :
        \E n \in DOMAIN files[dir] : Positions(files[dir][n], id) # {}

PushCall ==
    \E p \in Producers, level \in PushLevels, day \in Days,
       message \in Messages : Push(p, NewLog(level, day, message))

\* C3: while Init has never been called, a call of Push panics with
\* "logger not start" and the queue is left as it was: nothing is enqueued.
C3_PushBeforeInit ==
    [][(initCalls = 0 /\ PushCall) =>
           /\ panicked' = "logger not start"
           /\ logChan' = logChan
           /\ pending' = pending
           /\ pushed' = pushed]_vars

C3_Witness == initCalls = 0 /\ panicked = "logger not start" /\ logChan = <<>>

\* ------------------------------------------------------------------- C4
\* C4: in every state after Init has returned, the worker is started
\* (started = true), so that Push cannot fail with "logger not start".
C4_StartedAfterInit == (initReturned > 0 /\ Running) => started

\* ------------------------------------------------------------------- C5
\* C5: a call of Init made after an earlier call has returned panics; it
\* replaces neither the configuration, the queue nor the handle set, and
\* launches no second worker.
C5_ReinitAborts ==
    [][(initReturned >= 1 /\ initCalls' = initCalls + 1) =>
           /\ panicked' = "logger started"
           /\ UNCHANGED <<config, logChan, fileMap, wk>>]_vars

\* ------------------------------------------------------------------- C6
\* C6: the queue never holds more than its capacity, which is the
\* configured ChannelSize, or 1024 for 0; a Push that finds the queue full
\* keeps mux and its record, and returns only by enqueuing that record
\* into a queue with room; and with a fair worker a blocked Push returns
\* eventually (unless a panic ends the process).
C6_BoundedBlockingQueue ==
    /\ [](Len(logChan) <= chanCap)
    /\ [][\A configured \in Configs :
              (LoggerInit(configured) /\ initReturned' # initReturned) =>
                  chanCap' = IF configured.ChannelSize = 0 THEN 1024
                             ELSE configured.ChannelSize]_vars
    /\ [][\A p \in Producers :
              /\ (seq'[p] # seq[p] /\ Len(logChan) >= chanCap) =>
                     /\ mux' = p
                     /\ pending' = pushed'[<<p, seq'[p]>>]
                     /\ logChan' = logChan
              /\ (mux = p /\ mux' # p /\ Running') =>
                     /\ Len(logChan) < chanCap
                     /\ logChan' = Append(logChan, pending)]_vars
    /\ []<>(mux = NoOne \/ ~Running)

C6_Witness == mux # NoOne /\ Len(logChan) = chanCap /\ wk.select > 0

\* ------------------------------------------------------------------- C7
\* C7: when the worker writes a record of day D+1 to a bucket whose cached
\* file <D>.log holds records of day D, then (the open succeeding) a file
\* <D+1>.log exists afterwards and ends with the record's lines, and
\* <D>.log is as it was, whatever the day of time.Now() is.
C7_DateRotation ==
    [][\A log \in wk.write : \A d \in Days :
           ( /\ Wrote(log)
             /\ Bucket(log.Level) \in DOMAIN fileMap
             /\ fileMap[Bucket(log.Level)] = [name |-> baseName(d)]
             /\ fileMap'[Bucket(log.Level)] # NilFile
             /\ \E i \in 1..Len(files[DirOf(log)][baseName(d)]) :
                    files[DirOf(log)][baseName(d)][i].Time = d
             /\ log.Time = d + 1 )
           => LET new == files'[DirOf(log)]
                  want == formatLine(log).result
              IN  /\ baseName(d + 1) \in DOMAIN new
                  /\ Len(new[baseName(d + 1)]) >= Len(want)
                  /\ SubSeq(new[baseName(d + 1)],
                            Len(new[baseName(d + 1)]) - Len(want) + 1,
                            Len(new[baseName(d + 1)])) = want
                  /\ baseName(d) \in DOMAIN new
                  /\ new[baseName(d)] = files[DirOf(log)][baseName(d)]]_vars

\* ------------------------------------------------------------------- C8
RECURSIVE SumSizes(_, _)
SumSizes(dir, names) ==
    IF names = {} THEN 0
    ELSE LET n == CHOOSE m \in names : TRUE
         IN  Size(dir[n]) + SumSizes(dir, names \ {n})

\* the bytes written to the files of day d in a directory
TotalBytes(dir, d) ==
    SumSizes(files[dir], {n \in DOMAIN files[dir] : n[1] = d})

\* C8, as the specification states it: in every quiescent state, a directory whose files of one
\* date hold more than logFileMaxSize bytes has the backup <date>_1.log.
C8_BackupWhenQuiescent ==
    Drained =>
        \A dir \in LevelDirs, d \in Days :
            TotalBytes(dir, d) > logFileMaxSize =>
                backupName(d, 1) \in DOMAIN files[dir]

\* C8, as the code keeps it: the backup <date>_1.log exists once the worker has
\* processed one more record of the bucket after <date>.log grew past
\* logFileMaxSize, time.Now() still being on that date; and it exists from
\* then on.
C8_BackupAfterNextWrite ==
    [][/\ \A log \in wk.write : \A d \in Days :
              SizeRotation(log, d) =>
                  backupName(d, 1) \in DOMAIN files'[DirOf(log)]
       /\ \A dir \in LevelDirs : \A d \in Days :
              backupName(d, 1) \in DOMAIN files[dir] =>
                  backupName(d, 1) \in DOMAIN files'[dir]]_vars

C8_Witness ==
    \E dir \in LevelDirs, d \in Days :
        /\ rotations[dir][d] = 1
        /\ backupName(d, 1) \in DOMAIN files[dir]
        /\ baseName(d) \in DOMAIN files[dir]

\* ------------------------------------------------------------------- C9
\* C9: from an empty directory, after k size-triggered rotations within one
\* date exactly k backups of that date exist, with the indices 1..k.
C9_DenseBackups ==
    \A dir \in LevelDirs, d \in Days :
        /\ BackupIndices(dir, d) = 1..rotations[dir][d]
        /\ Cardinality({m \in DOMAIN files[dir] : m[1] = d /\ Len(m) > 2})
               = rotations[dir][d]

C9_Witness ==
    \E dir \in LevelDirs, d \in Days :
        rotations[dir][d] = 2 /\ BackupIndices(dir, d) = {1, 2}

\* ------------------------------------------------------------------ C10
\* C10, as the specification states it: after a size-triggered rotation the file that was
\* <date>.log before it carries the highest index among the date's backups.
C10_DisplacedGetsHighest ==
    [][\A log \in wk.write : \A d \in Days :
           SizeRotation(log, d) =>
               LET k == CHOOSE n \in 1..(MaxPush + 1) :
                            /\ backupName(d, n) \in DOMAIN files'[DirOf(log)]
                            /\ backupName(d, n + 1) \notin DOMAIN files'[DirOf(log)]
               IN  files'[DirOf(log)][backupName(d, k)]
                       = files[DirOf(log)][baseName(d)]]_vars

\* C10, as the code keeps it: after a size-triggered rotation the file that was
\* <date>.log before it is <date>_1.log, the lowest index, and every
\* earlier backup <date>_n.log is <date>_(n+1).log: the highest index is
\* the oldest backup.
C10_DisplacedGetsLowest ==
    [][\A log \in wk.write : \A d \in Days :
           SizeRotation(log, d) =>
               LET old == files[DirOf(log)]
                   new == files'[DirOf(log)]
               IN  /\ backupName(d, 1) \in DOMAIN new
                   /\ new[backupName(d, 1)] = old[baseName(d)]
                   /\ \A n \in BackupIndices(DirOf(log), d) :
                          /\ backupName(d, n + 1) \in DOMAIN new
                          /\ new[backupName(d, n + 1)] = old[backupName(d, n)]]_vars

C10_Witness ==
    \E dir \in LevelDirs, d \in Days :
        /\ {backupName(d, 1), backupName(d, 2)} \subseteq DOMAIN files[dir]
        /\ \E i \in 1..Len(files[dir][backupName(d, 1)]) :
               \E j \in 1..Len(files[dir][backupName(d, 2)]) :
                   /\ files[dir][backupName(d, 1)][i].src[1]
                          = files[dir][backupName(d, 2)][j].src[1]
                   /\ files[dir][backupName(d, 1)][i].src[2]
                          > files[dir][backupName(d, 2)][j].src[2]

\* ------------------------------------------------------------------ C11
\* the directory the specification gives a Level: the lower-case form of
\* the running source's own four codes, inf for every other string
SeverityDir(level) ==
    LET codes == IF program = "logger.go"
                 THEN [dbg |-> debugLevel, inf |-> infoLevel,
                       wrn |-> warnLevel, err |-> errorLevel]
                 ELSE [dbg |-> DebugLevel, inf |-> InfoLevel,
                       wrn |-> WarnLevel, err |-> ErrorLevel]
    IN  IF level = codes.dbg THEN "dbg"
        ELSE IF level = codes.wrn THEN "wrn"
        ELSE IF level = codes.err THEN "err"
        ELSE "inf"

\* C11: in logger.go and in part_000, every line on disk lies in the
\* directory of its record's own severity (inf for a Level that is none of
\* the four codes), and a record whose processing completes is, unless an
\* open has failed, in a file of that directory afterwards.
C11_SeverityRouting ==
    /\ [](\A dir \in LevelDirs : \A n \in DOMAIN files[dir] :
              \A i \in 1..Len(files[dir][n]) :
                  /\ files[dir][n][i].src \in DOMAIN pushed
                  /\ dir = SeverityDir(pushed[files[dir][n][i].src].Level))
    /\ [][\A log \in wk.write :
              Wrote(log) =>
                  \/ openFailed'
                  \/ \E n \in DOMAIN files'[SeverityDir(log.Level)] :
                         Positions(files'[SeverityDir(log.Level)][n], log.id)
                             # {}]_vars

C11_Witness ==
    /\ program = "logger.go"
    /\ \E n \in DOMAIN files["inf"] : \E i \in 1..Len(files["inf"][n]) :
           pushed[files["inf"][n][i].src].Level = <<"XYZ">>
    /\ \E n \in DOMAIN files["wrn"] : files["wrn"][n] # <<>>

\* ------------------------------------------------------------------ C12
\* C12: two calls of formatLine on the same record return the same string,
\* and a call leaves the record's fields as they were.
C12_FormatterPure ==
    /\ [](Len(formatted) >= 2 => formatted[1] = formatted[2])
    /\ [][formatted' # formatted => record' = record]_vars

\* ------------------------------------------------------------------ C13
\* the segments s[from..] joined by "\n"
RECURSIVE Join(_, _)
Join(s, from) ==
    IF from > Len(s) THEN <<>>
    ELSE IF from = Len(s) THEN s[from].Msg
    ELSE s[from].Msg \o <<"\n">> \o Join(s, from + 1)

Newlines(message) == Cardinality({i \in 1..Len(message) : message[i] = "\n"})

\* C13: every string formatLine returns for a record whose Message has n
\* newlines has n + 1 lines, the segments of Message in order, all with the
\* same time, the same level token and the same origin.
C13_MultiLine ==
    \A k \in 1..Len(formatted) :
        LET out == formatted[k]
        IN  /\ Len(out) = Newlines(record.Message) + 1
            /\ Join(out, 1) = record.Message
            /\ \A i \in 1..Len(out) :
                   /\ out[i].Time = out[1].Time
                   /\ out[i].Level = out[1].Level
                   /\ out[i].Line = out[1].Line

\* the same two statements, for the cases where they hold: without color
\* in logger.go, and in part_000
FormatHoldsWithoutColor ==
    (program = "part_000" \/ ~useColor) =>
        /\ C13_MultiLine
        /\ Len(formatted) >= 2 => formatted[1] = formatted[2]

\* ------------------------------------------------------------------ C14
\* the push numbers of the records that have a line in content
RecordsIn(content) == {content[i].src[2] : i \in 1..Len(content)}

\* the scenario has run to its end: five records pushed, all written, no
\* failure on the way
ScenarioDone ==
    /\ logFileMaxSize = 100
    /\ seq["p1"] = 5
    /\ Drained
    /\ ~openFailed
    /\ Running

\* C14, as the specification states it: at the end of the scenario
\* <date>.log holds at most the last three records and <date>_1.log at most
\* the first two.
C14_LastThreeFirstTwo ==
    ScenarioDone =>
        /\ baseName(1) \in DOMAIN files["inf"]
        /\ RecordsIn(files["inf"][baseName(1)]) \subseteq {3, 4, 5}
        /\ backupName(1, 1) \in DOMAIN files["inf"]
        /\ RecordsIn(files["inf"][backupName(1, 1)]) \subseteq {1, 2}

\* C14, as the code keeps it: at the end of the scenario <date>.log holds
\* the fifth record only (30 bytes), <date>_1.log holds the first four in
\* push order (120 bytes), and there is no other file.
C14_LastOneFirstFour ==
    ScenarioDone =>
        /\ DOMAIN files["inf"] = {baseName(1), backupName(1, 1)}
        /\ RecordsIn(files["inf"][baseName(1)]) = {5}
        /\ Size(files["inf"][baseName(1)]) = 30
        /\ [i \in 1..4 |-> files["inf"][backupName(1, 1)][i].src[2]]
               = <<1, 2, 3, 4>>
        /\ Size(files["inf"][backupName(1, 1)]) = 120

C14_Witness == ScenarioDone /\ backupName(1, 1) \in DOMAIN files["inf"]

\* ------------------------------------------------------------------ C15
\* the worker's step on the record log: write returns, or panics
Processes(log) ==
    \/ Wrote(log)
    \/ panicked = "" /\ panicked' = "nil pointer dereference"

\* the three conditions under which a new file is required
NewFileRequired(log) ==
    LET level == Bucket(log.Level)
    IN  \/ level \notin DOMAIN fileMap
        \/ /\ fileMap[level] # NilFile
           /\ \/ Size(files[DirOf(log)][fileMap[level].name]) > logFileMaxSize
              \/ log.Time # fileMap[level].name[1]

\* the handle of the record's bucket is replaced by what newFile returns
\* (the file named after time.Now(), or nil), and the record's lines are
\* the last lines of the file behind the new handle
Replaced(log) ==
    LET level == Bucket(log.Level)
        want == formatLine(log).result
        new == files'[DirOf(log)]
    IN  /\ Wrote(log)
        /\ DOMAIN fileMap' = DOMAIN fileMap \cup {level}
        /\ \A l \in DOMAIN fileMap \ {level} : fileMap'[l] = fileMap[l]
        /\ fileMap'[level] \in {NilFile, [name |-> baseName(now)]}
        /\ fileMap'[level] # NilFile =>
               /\ baseName(now) \in DOMAIN new
               /\ Len(new[baseName(now)]) >= Len(want)
               /\ SubSeq(new[baseName(now)],
                         Len(new[baseName(now)]) - Len(want) + 1,
                         Len(new[baseName(now)])) = want

\* the record's lines are appended to the file of the cached handle and
\* nothing else changes
Appended(log) ==
    /\ Wrote(log)
    /\ fileMap' = fileMap
    /\ dirs' = dirs
    /\ files' = [files EXCEPT ![DirOf(log)][fileMap[Bucket(log.Level)].name] =
                     @ \o formatLine(log).result]

\* C15: for every record and every state of the handle set, the worker's
\* step on the record replaces the bucket's handle through newFile if no
\* handle is cached, or the cached file is larger than logFileMaxSize, or
\* the record's date differs from the date in the cached file's name; in
\* every other case it appends to the cached handle and leaves the handle
\* set as it was.
C15_RotationDecision ==
    [][\A log \in wk.write :
           Processes(log) =>
               IF NewFileRequired(log) THEN Replaced(log) ELSE Appended(log)]_vars

\* the same statement for the states in which no cached handle is nil
RotationDecisionWithHandles ==
    [][\A log \in wk.write :
           (Processes(log) /\ \A l \in DOMAIN fileMap : fileMap[l] # NilFile) =>
               IF NewFileRequired(log) THEN Replaced(log) ELSE Appended(log)]_vars

\* ------------------------------------------------------------------ C16
\* the record goes through the else branch of writeLog (lines 189-199)
InfoBranch(log) == log.Level \notin {DebugLevel, WarnLevel, ErrorLevel}

\* C16: in part_000, when writeLog processes an info record whose date
\* differs from the date the cached infoFile was opened for, infoFile is
\* replaced by newInfoFile before the write: afterwards infoFile is the
\* file of time.Now() (or nil), and the file of the old handle, unless it is
\* that same file, has not been appended to.
C16_InfoDateRotation ==
    [][\A log \in wk.write :
           ( /\ program = "part_000"
             /\ Wrote(log)
             /\ InfoBranch(log)
             /\ infoFile # NilFile
             /\ log.Time # infoFile.name[1] )
           => /\ infoFile' \in {NilFile, [name |-> baseName(now)]}
              /\ now # infoFile.name[1] =>
                     /\ infoFile.name \in DOMAIN files'["inf"]
                     /\ files'["inf"][infoFile.name]
                            = files["inf"][infoFile.name]]_vars

\* ------------------------------------------------------------------ C17
\* the goroutines that Init has launched and that have not ended
Workers ==
    wk.go + wk.select + Cardinality(wk.write)
        + (IF "stuck" \in DOMAIN wk THEN wk.stuck ELSE 0)

\* C17: in every reachable state at most one worker goroutine exists, so
\* that never two of them receive from the queue or use the handle set.
C17_SingleWorker == Workers <= 1

\* two goroutines are inside write, on the same fileMap, at the same time
TwoInsideWrite == Cardinality(wk.write) >= 2

\* ------------------------------------------------------------------ C18
\* C18: after an open has failed the worker does not crash: it is not
\* ended by a panic, and a record it takes after the failure is processed
\* by a write that returns.
C18_OpenFailureAbsorbed ==
    /\ [](openFailed => panicked # "nil pointer dereference")
    /\ [][\A log \in wk.write :
              (openFailed /\ Processes(log)) => Wrote(log)]_vars

\* ------------------------------------------------------------------ C19
\* the directory after the first n renames of renameFile's last loop
RECURSIVE AfterRenames(_, _, _, _)
AfterRenames(dir, dateFile, d, n) ==
    IF n = 0 THEN dir
    ELSE Rename(AfterRenames(dir, dateFile, d, n - 1), dateFile[n],
                renameTarget(d, Len(dateFile), n))

\* the files of day d in the order renameFile renames them
RenameOrder(dir, d) ==
    sortOuter(SelectSeq(ReadDir(DOMAIN dir), LAMBDA n : n[1] = d), 1)

\* C19: when renameFile runs on a directory that holds <date>.log and the
\* backups 1..m, no rename has a target that exists at that moment;
\* afterwards <date>.log is <date>_1.log, every <date>_n.log is
\* <date>_(n+1).log, the files of the date are exactly the backups
\* 1..m+1 (no <date>.log), and the files of other dates are as they were.
C19_RenameKeepsBackups ==
    [][ApplyRename =>
           LET old == files["inf"]
               new == files'["inf"]
               order == RenameOrder(old, now)
               m == Len(order) - 1
           IN  /\ \A n \in 1..Len(order) :
                      renameTarget(now, Len(order), n)
                          \notin DOMAIN AfterRenames(old, order, now, n - 1)
               /\ new[backupName(now, 1)] = old[baseName(now)]
               /\ \A j \in 1..m :
                      new[backupName(now, j + 1)] = old[backupName(now, j)]
               /\ {n \in DOMAIN new : n[1] = now}
                      = {backupName(now, j) : j \in 1..(m + 1)}
               /\ \A n \in DOMAIN old :
                      n[1] # now => n \in DOMAIN new /\ new[n] = old[n]
               /\ Cardinality(DOMAIN new) = Cardinality(DOMAIN old)]_vars

C19_Witness ==
    /\ initCalls = 0
    /\ baseName(1) \notin DOMAIN files["inf"]
    /\ backupName(1, MaxBackups + 1) \in DOMAIN files["inf"]
    /\ files["inf"][backupName(1, MaxBackups + 1)] = Mark(1, MaxBackups)
    /\ files["inf"][backupName(1, 1)] = Mark(1, 0)

\* ------------------------------------------------------------------ C20
\* the lines of the last record written to content
RECURSIVE LastBlock(_)
LastBlock(content) ==
    IF Len(content) <= 1 THEN content
    ELSE IF content[Len(content) - 1].src = content[Len(content)].src
         THEN Append(LastBlock(SubSeq(content, 1, Len(content) - 1)),
                     content[Len(content)])
         ELSE <<content[Len(content)]>>

\* C20: the file a write appends to, cached or freshly opened over an
\* existing file, has at most logFileMaxSize bytes before the write; so
\* every <date>.log is at most logFileMaxSize plus the size of the last
\* record written to it.
C20_ActiveFileBound ==
    /\ [][\A log \in wk.write :
              (Wrote(log) /\ fileMap'[Bucket(log.Level)] # NilFile) =>
                  Size(files'[DirOf(log)][fileMap'[Bucket(log.Level)].name])
                      - Size(formatLine(log).result) <= logFileMaxSize]_vars
    /\ [](\A dir \in LevelDirs : \A d \in Days :
              baseName(d) \in DOMAIN files[dir] =>
                  Size(files[dir][baseName(d)])
                      - Size(LastBlock(files[dir][baseName(d)]))
                      <= logFileMaxSize)

C20_Witness ==
    \E dir \in LevelDirs, d \in Days :
        /\ baseName(d) \in DOMAIN files[dir]
        /\ backupName(d, 1) \in DOMAIN files[dir]
        /\ Size(files[dir][baseName(d)]) > logFileMaxSize
        /\ \E log \in wk.write :
               DirOf(log) = dir /\ log.Time # d /\ now = d

====
